---- MODULE Spec2Model ----
(***************************************************************************)
(* The navigation transition engine of packages/history/history.ts:        *)
(* createMemoryHistory, createBrowserHistory and createHashHistory, with   *)
(* the event registry (createEvents), the path codec (parsePath,           *)
(* createPath) and the blocking protocol (allowTx, handlePop, retry).      *)
(*                                                                         *)
(* JavaScript runs the engine on one thread.  A call of push, replace, go, *)
(* listen, block, ... runs to completion except where it hands control to  *)
(* a subscriber: handlers.forEach(fn => fn(arg)).  The model keeps the     *)
(* JavaScript call stack of those hand-overs in `stack`: a fan-out frame   *)
(* per running createEvents.call and a callback frame per running          *)
(* subscriber.  User code (the caller of the API) runs either at top level *)
(* (empty stack) or inside a callback frame, where it may call the API     *)
(* again.  One action is one call of the API up to the point where it      *)
(* returns or hands control to the first subscriber.                       *)
(*                                                                         *)
(* Strings that the code takes apart (paths) are sequences of one-letter   *)
(* strings; opaque values (state objects, keys, handler functions) are     *)
(* TLA+ strings.  JavaScript's undefined and null are "undefined", "null". *)
(***************************************************************************)
EXTENDS Integers, Sequences, FiniteSets, TLC

\* ------------------------------------------------------------------ bounds
\* The longest history stack (entries of the in-memory backend, entries of
\* the platform's session history for the URL-backed ones).
MaxEntries == 3
\* go(n) is called with n in -MaxGo..MaxGo.
MaxGo == 1
\* The most registrations one event registry holds.
MaxHandlers == 2
\* The most Transitions blockers keep for a later retry().
MaxHeld == 1
\* The most requests user code makes in one run: calls of push, replace,
\* go, retry, listen and block (from top level or from inside a callback)
\* and navigations by hand.  Calls that de-register a handler are not
\* counted: the registrations bound them.
MaxCalls == 4
\* the longest path string given to parsePath
MaxPathLen == 4

\* ------------------------------------------------------------ input values
Push == "PUSH"
Pop == "POP"
Replace == "REPLACE"

Backends == {"memory", "browser", "hash"}
UrlBacked == {"browser", "hash"}

\* The values createKey() draws (Math.random) for the initial entries of
\* createMemoryHistory, by position, and for getNextLocation.
InitialKeys == <<"k1", "k2">>
Keys == {"k3"}
\* The subscriber functions user code passes to listen() and to block().
Listeners == {"f1", "f2"}
Blockers == {"f1", "f2"}
\* The arguments of push(to, state) and replace(to, state): `to` a path
\* string (whole, or a search string alone), state an object or not given.
Calls == {[to |-> <<"/", "b">>, st |-> "s1"], [to |-> <<"?", "q">>, st |-> "undefined"]}
\* What createMemoryHistory is given as initialEntries.
InitialEntriesOptions ==
  {<< <<"/", "a">> >>, << <<"/", "a">>, <<"/", "b">> >>, << <<"b">> >>}
\* The fragment the user navigates to by hand (a link, the address bar).
\* the characters of the path strings given to parsePath
PathChars == {"/", "a", "?", "#"}
\* every path string of at most MaxPathLen characters
Paths == UNION {[1..n -> PathChars] : n \in 0..MaxPathLen}

Fragments == {<<"/", "c">>}

\* -------------------------------------------------------- string helpers
\* String.prototype.indexOf for one letter: 0-based, -1 when absent.
IndexOf(s, c) ==
  IF \E i \in 1..Len(s) : s[i] = c
  THEN (CHOOSE i \in 1..Len(s) : s[i] = c /\ \A j \in 1..(i - 1) : s[j] # c) - 1
  ELSE -1

\* path.substr(start)
SubstrFrom(s, start) == SubSeq(s, start + 1, Len(s))

\* path.substr(start, length)
Substr(s, start, length) == SubSeq(s, start + 1, start + length)

\* str.charAt(0) === '/'
StartsWithSlash(s) == Len(s) > 0 /\ s[1] = "/"

\* Object.assign({}, a, b): b's own properties win.
Assign(a, b) == [k \in (DOMAIN a) \cup (DOMAIN b) |-> IF k \in DOMAIN b THEN b[k] ELSE a[k]]

\* An object with no own property.
EmptyObject == [k \in {} |-> <<>>]

Min(a, b) == IF a < b THEN a ELSE b
Max(a, b) == IF a > b THEN a ELSE b

Range(s) == {s[i] : i \in 1..Len(s)}

\* ------------------------------------------------------------- path codec
\* parsePath, last step: if (path) pieces.pathname = path
parsePathname(path, pieces) ==
  IF path # <<>> THEN Assign(pieces, [k \in {"pathname"} |-> path]) ELSE pieces

\* parsePath, second step: the search string from the first "?" on
parseSearch(path, searchIndex, pieces) ==
  IF searchIndex >= 0
  THEN parsePathname(Substr(path, 0, searchIndex),
                     Assign(pieces, [k \in {"search"} |-> SubstrFrom(path, searchIndex)]))
  ELSE parsePathname(path, pieces)

\* parsePath, first step: the hash from the first "#" on
parseHash(path, hashIndex) ==
  IF hashIndex >= 0
  THEN parseSearch(Substr(path, 0, hashIndex), IndexOf(Substr(path, 0, hashIndex), "?"),
                   [k \in {"hash"} |-> SubstrFrom(path, hashIndex)])
  ELSE parseSearch(path, IndexOf(path, "?"), EmptyObject)

\* parsePath splitting at the first "?" before it looks for the "#"
parsePathSearchFirst(path) ==
  LET searchIndex == IndexOf(path, "?")
      beforeSearch == IF searchIndex >= 0 THEN Substr(path, 0, searchIndex) ELSE path
      hashIndex == IndexOf(beforeSearch, "#")
      rest == IF hashIndex >= 0 THEN Substr(beforeSearch, 0, hashIndex) ELSE beforeSearch
  IN Assign(Assign(IF searchIndex >= 0
                   THEN [k \in {"search"} |-> SubstrFrom(path, searchIndex)]
                   ELSE EmptyObject,
                   IF hashIndex >= 0
                   THEN [k \in {"hash"} |-> SubstrFrom(beforeSearch, hashIndex)]
                   ELSE EmptyObject),
            IF rest # <<>> THEN [k \in {"pathname"} |-> rest] ELSE EmptyObject)

\* parsePath: the pieces present in the path, as an object holding only them.
parsePath(path) == IF path # <<>> THEN parseHash(path, IndexOf(path, "#")) ELSE EmptyObject

\* createPath writing the hash before the search string
createPathHashFirst(pieces) ==
  (IF "pathname" \in DOMAIN pieces THEN pieces["pathname"] ELSE <<"/">>)
  \o (IF "hash" \in DOMAIN pieces THEN pieces["hash"] ELSE <<>>)
  \o (IF "search" \in DOMAIN pieces THEN pieces["search"] ELSE <<>>)

\* createPath: pathname + search + hash, with the defaults of its parameters.
createPath(pieces) ==
  (IF "pathname" \in DOMAIN pieces THEN pieces["pathname"] ELSE <<"/">>)
  \o (IF "search" \in DOMAIN pieces THEN pieces["search"] ELSE <<>>)
  \o (IF "hash" \in DOMAIN pieces THEN pieces["hash"] ELSE <<>>)

\* ------------------------------------------------------- values and records
\* JavaScript numbers as the URL-backed engines meet them: history.state.idx
\* is a number, absent (undefined), or NaN once undefined met arithmetic.
Num(v) == [t |-> "number", v |-> v]
Undefined == [t |-> "undefined", v |-> 0]
NaN == [t |-> "NaN", v |-> 0]

\* a + b and a - b of JavaScript numbers
JsAdd(a, b) == IF a.t = "number" /\ b.t = "number" THEN Num(a.v + b.v) ELSE NaN
JsSub(a, b) == IF a.t = "number" /\ b.t = "number" THEN Num(a.v - b.v) ELSE NaN
\* x != null
NotNullish(a) == a.t # "undefined"
\* if (n): 0 and NaN are falsy
Truthy(a) == a.t = "number" /\ a.v # 0

NoLocation == [pathname |-> <<>>, search |-> <<>>, hash |-> <<>>, state |-> "undefined", key |-> ""]
NoRetry == [op |-> "none", to |-> <<>>, st |-> "undefined", n |-> 0]
\* blockedPopTx = null, and the Transition field of a label that has none
NoTx == [action |-> "none", location |-> NoLocation, retry |-> NoRetry]

\* { action, location }: the Update listeners receive
Update(a, l) == [action |-> a, location |-> l, retry |-> NoRetry]
\* { action, location, retry }: the Transition blockers receive
Transition(a, l, r) == [action |-> a, location |-> l, retry |-> r]

\* history.state of a platform entry that carries none (null, read as {})
NullState == [usr |-> "undefined", key |-> "undefined", idx |-> Undefined]

\* --------------------------------------------------------------- variables
VARIABLES
  backend,       \* which create*History built the engine
  entries,       \* memory: the stack of locations
  index,         \* the engine's index (memory: a number; URL-backed: a JavaScript number)
  action,        \* the engine's current action
  location,      \* the engine's current location
  listeners,     \* handlers of the listeners registry, in order
  blockers,      \* handlers of the blockers registry, in order
  beforeUnload,  \* whether promptBeforeUnload is attached to the window
  blockedPopTx,  \* URL-backed: the blocked POP held for the revert round-trip
  gEntries,      \* the platform's session history: [url, state] per entry
  gIndex,        \* the platform's current entry (0-based)
  pending,       \* traversals asked of the platform (history.go) not yet done:
                 \* the delta, and whether handlePop asked it to revert a Pop
  events,        \* platform events fired and not yet dispatched ("unload": the
                 \* document is about to be replaced, which ends the engine)
  stack,         \* the JavaScript call stack of fan-outs and callbacks, top first
  calls,         \* calls user code has made so far
  held,          \* Transitions a blocker kept, to call retry() later
  returned,      \* the de-registration functions listen() and block() have returned
  ev,            \* label of the last step: what ran, on whom, with what
  nav,           \* the last navigation request and the one before it
  givenPath,     \* a path string given to parsePath
  parsedPath,    \* what parsePath(givenPath) returned
  createdPath,   \* what createPath(parsedPath) returned
  pathStep       \* how far givenPath has gone: "given", "parsed", "created"

pathVars == <<givenPath, parsedPath, createdPath, pathStep>>

vars == <<backend, entries, index, action, location, listeners, blockers, beforeUnload,
          blockedPopTx, gEntries, gIndex, pending, events, stack, calls, held, returned,
          ev, nav, givenPath, parsedPath, createdPath, pathStep>>

\* -------------------------------------------------------------- labels
\* The label of a step: the operation, the handler it concerns, the
\* Transition or Update it concerns, whether it emitted a warning.  The
\* label of the construction carries initialIndex in tx.retry.n.
Label(op, h, tx, warned) == [op |-> op, h |-> h, tx |-> tx, warned |-> warned]

NoPrev == [op |-> "none", to |-> <<>>, st |-> "undefined", n |-> 0, committed |-> FALSE,
           preIndex |-> 0]

\* The record of a navigation request: what was asked (op, to, st, n), how
\* (via a direct call, a retry(), or a platform event), whether it was
\* committed, the cursor before it, and the request before it.
NavRecord(op, via, to, st, n, committed, preIndex, preLoc, before) ==
  [op |-> op, via |-> via, to |-> to, st |-> st, n |-> n, committed |-> committed,
   preIndex |-> preIndex, preLoc |-> preLoc,
   prev |-> [op |-> before.op, to |-> before.to, st |-> before.st, n |-> before.n,
             committed |-> before.committed, preIndex |-> before.preIndex]]

\* ----------------------------------------------------------- event registry
\* The function a registration of fn returned: a closure over fn alone.
Remover(op, fn) == [op |-> op, fn |-> fn]

\* createEvents().push(fn): handlers.push(fn)
EventsPush(handlers, fn) == Append(handlers, fn)

\* the function push() returns: handlers = handlers.filter(handler => handler !== fn)
EventsRemove(handlers, fn) == SelectSeq(handlers, LAMBDA handler : handler # fn)

\* The frame of a running handlers.forEach(fn => fn && fn(arg)): the array
\* it iterates (the one `handlers` named when it started), the position of
\* the next handler, the argument, what the caller does when it returns
\* (cont), the operation it belongs to (cause) and the handlers called so far.
FanOut(kind, handlers, arg, cont, cause) ==
  [kind |-> kind, hs |-> handlers, i |-> 1, arg |-> arg, cont |-> cont, cause |-> cause,
   called |-> <<>>, h |-> ""]

\* The frame of a running subscriber fn(arg).
Callback(kind, fn, arg, cause) ==
  [kind |-> kind, hs |-> <<>>, i |-> 0, arg |-> arg, cont |-> "none", cause |-> cause,
   called |-> <<>>, h |-> fn]

\* createEvents().call(arg) that goes from the last handler to the first
EventsCallBackwards(stk, kind, handlers, arg, cont, cause) ==
  IF handlers = <<>> THEN stk
  ELSE <<FanOut(kind, [i \in 1..Len(handlers) |-> handlers[Len(handlers) + 1 - i]], arg,
                cont, cause)>> \o stk

\* createEvents().call(arg) from a caller whose stack is stk: forEach over
\* no handler returns at once.
EventsCall(stk, kind, handlers, arg, cont, cause) ==
  IF handlers = <<>> THEN stk ELSE <<FanOut(kind, handlers, arg, cont, cause)>> \o stk

\* -------------------------------------------------------- location helpers
\* getNextLocation that leaves the current location's state in place
getNextLocationKeepsState(loc, to, state, key) ==
  Assign(Assign(loc, parsePath(to)), [key |-> key])

\* getNextLocation(to, state): Object.assign({}, location, parsePath(to),
\* { state, key: createKey() }); `to` is a path string.
getNextLocation(loc, to, state, key) ==
  Assign(Assign(loc, parsePath(to)), [state |-> state, key |-> key])

\* clamp that wraps a value below the range to its upper bound
clampWraps(n, lowerBound, upperBound) ==
  IF n < lowerBound THEN upperBound ELSE Min(n, upperBound)

\* clamp whose upper bound is off by one
clampShort(n, lowerBound, upperBound) == Max(Min(n, upperBound - 1), lowerBound)

\* clamp(n, lowerBound, upperBound)
clamp(n, lowerBound, upperBound) == Min(Max(n, lowerBound), upperBound)

\* splice that deletes nothing
spliceKeeps(arr, start, deleteCount, item) ==
  SubSeq(arr, 1, Min(start, Len(arr))) \o <<item>>
    \o SubSeq(arr, Min(start, Len(arr)) + 1, Len(arr))

\* Array.prototype.splice(start, deleteCount, item) on a 0-based array
splice(arr, start, deleteCount, item) ==
  LET s == Min(start, Len(arr))
      d == Min(Max(deleteCount, 0), Len(arr) - s)
  IN SubSeq(arr, 1, s) \o <<item>> \o SubSeq(arr, s + d + 1, Len(arr))

\* an assignment that lands past the end of the array
setAtEnd(arr, i, item) == Append(arr, item)

\* entries[i] = item on a 0-based array, i within it
setAt(arr, i, item) == [arr EXCEPT ![i + 1] = item]

\* { pathname = '/', search = '', hash = '' } = pieces
withDefaults(pieces) ==
  Assign([pathname |-> <<"/">>, search |-> <<>>, hash |-> <<>>], pieces)

\* window.location of a platform entry in the browser backend, from the
\* pieces p of its URL: pathname, search and hash ("?" and "#" alone read
\* as "").
windowLocation(p) ==
  [pathname |-> p.pathname,
   search |-> IF Len(p.search) = 1 THEN <<>> ELSE p.search,
   hash |-> IF Len(p.hash) = 1 THEN <<>> ELSE p.hash]

\* window.location.hash of a platform entry in the hash backend: the
\* fragment with its "#", or "" when the fragment is empty.
windowHash(url) == IF Len(url) <= 1 THEN <<>> ELSE url

\* What getIndexAndLocation() returns for path pieces w and history.state
\* state (null read as {}): [state.idx, { pathname, search, hash,
\* state: state.usr || null, key: state.key || 'default' }]
indexAndLocation(w, state) ==
  <<state.idx,
    [pathname |-> w.pathname, search |-> w.search, hash |-> w.hash,
     state |-> IF state.usr = "undefined" THEN "null" ELSE state.usr,
     key |-> IF state.key = "undefined" THEN "default" ELSE state.key]>>

\* getIndexAndLocation() of createBrowserHistory, on platform entry e
browserIndexAndLocation(e) ==
  indexAndLocation(windowLocation(withDefaults(parsePath(e.url))), e.state)

\* getIndexAndLocation() of createHashHistory, on platform entry e
hashIndexAndLocation(e) ==
  indexAndLocation(withDefaults(parsePath(SubstrFrom(windowHash(e.url), 1))), e.state)

getIndexAndLocation(b, ge, gi) ==
  IF b = "hash" THEN hashIndexAndLocation(ge[gi + 1]) ELSE browserIndexAndLocation(ge[gi + 1])

\* createHref(to) for a location: the URL handed to pushState/replaceState
createHref(b, loc) == IF b = "hash" THEN <<"#">> \o createPath(loc) ELSE createPath(loc)

\* getHistoryStateAndUrl(nextLocation, index)
getHistoryStateAndUrl(b, nextLocation, idx) ==
  [state |-> [usr |-> nextLocation.state, key |-> nextLocation.key, idx |-> idx],
   url |-> createHref(b, nextLocation)]

\* ------------------------------------------------------------ who may call
InCallback == stack # <<>> /\ stack[1].kind \in {"listener", "blocker"}
AtTopLevel == stack = <<>> /\ events = <<>>

\* User code is running: at top level between platform events, or inside a
\* subscriber that a fan-out has called.
UserRuns == AtTopLevel \/ InCallback
\* ... and has a request left.
CanCall == UserRuns /\ calls < MaxCalls

\* -------------------------------------------------- the blocking protocol
\* allowTx that lets every transition through
allowTxMutant(handlers) == TRUE

\* allowTx that lets a transition through while one blocker is registered
allowTxUpToOne(handlers) == Len(handlers) <= 1

\* allowTx's test: !blockers.length
allowTx(handlers) == Len(handlers) = 0

\* allowTx's other branch calling the first blocker only
blockTxFirstOnly(nextAction, nextLocation, retry, cause) ==
  stack' = EventsCall(stack, "blockers", SubSeq(blockers, 1, 1),
                      Transition(nextAction, nextLocation, retry), "none", cause)

\* allowTx's other branch: (blockers.call({ action, location, retry }), false)
blockTx(nextAction, nextLocation, retry, cause) ==
  stack' = EventsCall(stack, "blockers", blockers,
                      Transition(nextAction, nextLocation, retry), "none", cause)

\* applyTx that assigns the action and leaves the location
applyTxKeepsLocation(stk, nextAction, nextLocation, cause) ==
  /\ action' = nextAction
  /\ location' = location
  /\ stack' = EventsCall(stk, "listeners", listeners, Update(action', location'), "none", cause)

\* applyTx that builds the Update before it assigns the action
applyTxStale(stk, nextAction, nextLocation, cause) ==
  /\ action' = nextAction
  /\ location' = nextLocation
  /\ stack' = EventsCall(stk, "listeners", listeners, Update(action, location'), "none", cause)

\* applyTx of createMemoryHistory: action = nextAction; location =
\* nextLocation; listeners.call({ action, location })
applyTx(stk, nextAction, nextLocation, cause) ==
  /\ action' = nextAction
  /\ location' = nextLocation
  /\ stack' = EventsCall(stk, "listeners", listeners, Update(action', location'), "none", cause)

\* ------------------------------------------------------- in-memory backend
\* createMemoryHistory's push(to, state); via and rtx tell whether a
\* Transition's retry() made the call, and which.
memoryPush(to, st, key, via, rtx) ==
  LET nextAction == Push
      nextLocation == getNextLocation(location, to, st, key)
      retry == [op |-> "push", to |-> to, st |-> st, n |-> 0]
      warned == ~StartsWithSlash(location.pathname)
  IN /\ allowTx(blockers) => index + 2 <= MaxEntries
     /\ IF allowTx(blockers)
        THEN /\ index' = index + 1
             /\ entries' = splice(entries, index', Len(entries), nextLocation)
             /\ applyTx(stack, nextAction, nextLocation, "push")
        ELSE /\ blockTx(nextAction, nextLocation, retry, "push")
             /\ UNCHANGED <<index, entries, action, location>>
     /\ ev' = Label(IF via = "retry" THEN "retry" ELSE "push", "",
                    IF via = "retry" THEN rtx ELSE Transition(nextAction, nextLocation, retry),
                    warned)
     /\ nav' = NavRecord("push", via, to, st, 0, allowTx(blockers), index, location, nav)
     /\ calls' = calls + 1
     /\ UNCHANGED <<pathVars, returned, backend, listeners, blockers, beforeUnload, blockedPopTx, gEntries,
                    gIndex, pending, events>>

\* createMemoryHistory's replace(to, state)
memoryReplace(to, st, key, via, rtx) ==
  LET nextAction == Replace
      nextLocation == getNextLocation(location, to, st, key)
      retry == [op |-> "replace", to |-> to, st |-> st, n |-> 0]
      warned == ~StartsWithSlash(location.pathname)
  IN /\ IF allowTx(blockers)
        THEN /\ entries' = setAt(entries, index, nextLocation)
             /\ applyTx(stack, nextAction, nextLocation, "replace")
             /\ UNCHANGED index
        ELSE /\ blockTx(nextAction, nextLocation, retry, "replace")
             /\ UNCHANGED <<index, entries, action, location>>
     /\ ev' = Label(IF via = "retry" THEN "retry" ELSE "replace", "",
                    IF via = "retry" THEN rtx ELSE Transition(nextAction, nextLocation, retry),
                    warned)
     /\ nav' = NavRecord("replace", via, to, st, 0, allowTx(blockers), index, location, nav)
     /\ calls' = calls + 1
     /\ UNCHANGED <<pathVars, returned, backend, listeners, blockers, beforeUnload, blockedPopTx, gEntries,
                    gIndex, pending, events>>

\* createMemoryHistory's go(n)
memoryGo(n, via, rtx) ==
  LET nextIndex == clamp(index + n, 0, Len(entries) - 1)
      nextAction == Pop
      nextLocation == entries[nextIndex + 1]
      retry == [op |-> "go", to |-> <<>>, st |-> "undefined", n |-> n]
  IN /\ IF allowTx(blockers)
        THEN /\ index' = nextIndex
             /\ applyTx(stack, nextAction, nextLocation, "go")
             /\ UNCHANGED entries
        ELSE /\ blockTx(nextAction, nextLocation, retry, "go")
             /\ UNCHANGED <<index, entries, action, location>>
     /\ ev' = Label(IF via = "retry" THEN "retry" ELSE "go", "",
                    IF via = "retry" THEN rtx ELSE Transition(nextAction, nextLocation, retry),
                    FALSE)
     /\ nav' = NavRecord("go", via, <<>>, "undefined", n, allowTx(blockers), index, location, nav)
     /\ calls' = calls + 1
     /\ UNCHANGED <<pathVars, returned, backend, listeners, blockers, beforeUnload, blockedPopTx, gEntries,
                    gIndex, pending, events>>

\* ----------------------------------------------------------- the platform
\* window.history.pushState(state, '', url): a new entry after the current
\* one, the entries beyond it dropped
pushState(ge, gi, state, url) ==
  [entries |-> SubSeq(ge, 1, gi + 1) \o <<[url |-> url, state |-> state]>>, index |-> gi + 1]

\* window.history.replaceState(state, '', url)
replaceState(ge, gi, state, url) ==
  [entries |-> [ge EXCEPT ![gi + 1] = [url |-> url, state |-> state]], index |-> gi]

\* The URL of the entry a same-document fragment navigation creates.
fragmentUrl(b, url, fragment) ==
  LET hashIndex == IndexOf(url, "#")
      base == IF hashIndex >= 0 THEN Substr(url, 0, hashIndex) ELSE url
  IN IF b = "hash" THEN <<"#">> \o fragment ELSE base \o <<"#">> \o fragment

\* The platform fires hashchange after popstate when the fragment differs;
\* only createHashHistory listens to it.
hashChangeEvents(b, oldUrl, newUrl) ==
  IF b = "hash" /\ oldUrl # newUrl THEN <<"hashchange">> ELSE <<>>

\* ------------------------------------------------------ URL-backed backends
\* applyTx of createBrowserHistory and createHashHistory: action =
\* nextAction; [index, location] = getIndexAndLocation();
\* listeners.call({ action, location }); read is what getIndexAndLocation()
\* returns at that moment
urlApplyTx(stk, nextAction, read, cause) ==
  /\ action' = nextAction
  /\ index' = read[1]
  /\ location' = read[2]
  /\ stack' = EventsCall(stk, "listeners", listeners, Update(action', location'), "none", cause)

\* push(to, state) of createBrowserHistory and createHashHistory (only the
\* latter warns about relative pathnames)
urlPush(to, st, key, via, rtx) ==
  LET nextAction == Push
      nextLocation == getNextLocation(location, to, st, key)
      retry == [op |-> "push", to |-> to, st |-> st, n |-> 0]
      warned == backend = "hash" /\ ~StartsWithSlash(nextLocation.pathname)
      hsu == getHistoryStateAndUrl(backend, nextLocation, JsAdd(index, Num(1)))
      g == pushState(gEntries, gIndex, hsu.state, hsu.url)
  IN /\ allowTx(blockers) => Len(g.entries) <= MaxEntries
     /\ IF allowTx(blockers)
        THEN /\ gEntries' = g.entries
             /\ gIndex' = g.index
             /\ urlApplyTx(stack, nextAction,
                           getIndexAndLocation(backend, g.entries, g.index), "push")
        ELSE /\ blockTx(nextAction, nextLocation, retry, "push")
             /\ UNCHANGED <<index, action, location, gEntries, gIndex>>
     /\ ev' = Label(IF via = "retry" THEN "retry" ELSE "push", "",
                    IF via = "retry" THEN rtx ELSE Transition(nextAction, nextLocation, retry),
                    warned)
     /\ nav' = NavRecord("push", via, to, st, 0, allowTx(blockers), index, location, nav)
     /\ calls' = calls + 1
     /\ UNCHANGED <<pathVars, returned, backend, entries, listeners, blockers, beforeUnload, blockedPopTx,
                    pending, events>>

\* replace(to, state) of createBrowserHistory and createHashHistory
urlReplace(to, st, key, via, rtx) ==
  LET nextAction == Replace
      nextLocation == getNextLocation(location, to, st, key)
      retry == [op |-> "replace", to |-> to, st |-> st, n |-> 0]
      warned == backend = "hash" /\ ~StartsWithSlash(nextLocation.pathname)
      hsu == getHistoryStateAndUrl(backend, nextLocation, index)
      g == replaceState(gEntries, gIndex, hsu.state, hsu.url)
  IN /\ IF allowTx(blockers)
        THEN /\ gEntries' = g.entries
             /\ gIndex' = g.index
             /\ urlApplyTx(stack, nextAction,
                           getIndexAndLocation(backend, g.entries, g.index), "replace")
        ELSE /\ blockTx(nextAction, nextLocation, retry, "replace")
             /\ UNCHANGED <<index, action, location, gEntries, gIndex>>
     /\ ev' = Label(IF via = "retry" THEN "retry" ELSE "replace", "",
                    IF via = "retry" THEN rtx ELSE Transition(nextAction, nextLocation, retry),
                    warned)
     /\ nav' = NavRecord("replace", via, to, st, 0, allowTx(blockers), index, location, nav)
     /\ calls' = calls + 1
     /\ UNCHANGED <<pathVars, returned, backend, entries, listeners, blockers, beforeUnload, blockedPopTx,
                    pending, events>>

\* go(n) of createBrowserHistory and createHashHistory: globalHistory.go(n),
\* which the platform carries out later (see traverse)
urlGo(n, via, rtx) ==
  /\ pending' = Append(pending, [n |-> n, revert |-> FALSE])
  /\ ev' = Label(IF via = "retry" THEN "retry" ELSE "go", "", rtx, FALSE)
  /\ nav' = NavRecord("go", via, <<>>, "undefined", n, FALSE, index, location, nav)
  /\ calls' = calls + 1
  /\ UNCHANGED <<pathVars, returned, backend, entries, index, action, location, listeners, blockers,
                 beforeUnload, blockedPopTx, gEntries, gIndex, events, stack>>

\* handlePop() of createBrowserHistory and createHashHistory once it has
\* read [nextIndex, nextLocation] = getIndexAndLocation(); pend are the
\* traversals the platform still has to do, op the event that made the call.
handlePopRead(nextIndex, nextLocation, n, pend, op) ==
  IF blockedPopTx # NoTx
  THEN /\ stack' = EventsCall(<<>>, "blockers", blockers, blockedPopTx, "clearPop", "pop")
       /\ blockedPopTx' = IF blockers = <<>> THEN NoTx ELSE blockedPopTx
       /\ pending' = pend
       /\ ev' = Label(op, "", blockedPopTx, FALSE)
       /\ nav' = NavRecord("pop", "revert", <<>>, "undefined", 0, FALSE, index, location, nav)
       /\ UNCHANGED <<index, action, location>>
  ELSE IF ~allowTx(blockers)
  THEN /\ IF NotNullish(nextIndex)
          THEN IF Truthy(n)
               THEN /\ blockedPopTx' =
                         Transition(Pop, nextLocation,
                                    [op |-> "go", to |-> <<>>, st |-> "undefined",
                                     n |-> n.v * (-1)])
                    /\ pending' = Append(pend, [n |-> n.v, revert |-> TRUE])
               ELSE /\ blockedPopTx' = blockedPopTx
                    /\ pending' = pend
          ELSE /\ blockedPopTx' = blockedPopTx
               /\ pending' = pend
       /\ ev' = Label(op, "", Update(Pop, nextLocation), ~NotNullish(nextIndex))
       /\ nav' = NavRecord("pop", "event", <<>>, "undefined", 0, FALSE, index, location, nav)
       /\ UNCHANGED <<index, action, location, stack>>
  ELSE /\ urlApplyTx(<<>>, Pop, <<nextIndex, nextLocation>>, "pop")
       /\ ev' = Label(op, "", Update(Pop, nextLocation), FALSE)
       /\ nav' = NavRecord("pop", "event", <<>>, "undefined", 0, TRUE, index, location, nav)
       /\ pending' = pend
       /\ UNCHANGED <<blockedPopTx>>

\* handlePop(), called by the platform (empty call stack) with its session
\* history showing the entry whose getIndexAndLocation() is read
handlePop(read, pend, op) ==
  handlePopRead(read[1], read[2], JsSub(index, read[1]), pend, op)

\* -------------------------------------------------------------------- Init
\* createMemoryHistory({ initialEntries, initialIndex }): each entry gets
\* the defaults, a key from createKey() and the pieces of its path.
memoryEntry(entry, key) ==
  Assign([pathname |-> <<"/">>, search |-> <<>>, hash |-> <<>>, state |-> "undefined",
          key |-> key],
         parsePath(entry))

InitMemory ==
  \E initialEntries \in InitialEntriesOptions, initialIndex \in -1..2 :
      /\ backend = "memory"
      /\ entries = [i \in 1..Len(initialEntries) |->
                      memoryEntry(initialEntries[i], InitialKeys[i])]
      /\ index = clamp(initialIndex, 0, Len(entries) - 1)
      /\ action = Pop
      /\ location = entries[index + 1]
      /\ gEntries = <<>>
      /\ gIndex = 0
      /\ nav = NavRecord("init", "call", <<>>, "undefined", 0, FALSE, 0, NoLocation, NoPrev)
      /\ ev = Label("init", "", [NoTx EXCEPT !.retry.n = initialIndex], FALSE)

\* createBrowserHistory() / createHashHistory() on a freshly loaded document:
\* one platform entry without history.state; index == null, so the engine
\* takes index 0 and writes { idx: 0 } into the entry.
InitUrl ==
  \E b \in UrlBacked :
    LET url == createHref(b, [pathname |-> <<"/", "a">>])
        loaded == <<[url |-> url, state |-> NullState]>>
        read == getIndexAndLocation(b, loaded, 0)
        g == replaceState(loaded, 0, [NullState EXCEPT !.idx = Num(0)], url)
    IN /\ backend = b
       /\ entries = <<>>
       /\ index = IF NotNullish(read[1]) THEN read[1] ELSE Num(0)
       /\ action = Pop
       /\ location = read[2]
       /\ gEntries = IF NotNullish(read[1]) THEN loaded ELSE g.entries
       /\ gIndex = 0
       /\ nav = NavRecord("init", "call", <<>>, "undefined", 0, FALSE, Num(0), NoLocation,
                          [NoPrev EXCEPT !.preIndex = Num(0)])
       /\ ev = Label("init", "", NoTx, FALSE)

Init ==
  /\ InitMemory \/ InitUrl
  /\ listeners = <<>>
  /\ blockers = <<>>
  /\ beforeUnload = FALSE
  /\ blockedPopTx = NoTx
  /\ pending = <<>>
  /\ events = <<>>
  /\ stack = <<>>
  /\ calls = 0
  /\ held = {}
  /\ returned = {}
  /\ givenPath = <<>>
  /\ parsedPath = EmptyObject
  /\ createdPath = <<>>
  /\ pathStep = "none"

\* ---------------------------------------------------------------- the API
doPush(to, st, key, via, rtx) ==
  IF backend = "memory" THEN memoryPush(to, st, key, via, rtx) ELSE urlPush(to, st, key, via, rtx)

doReplace(to, st, key, via, rtx) ==
  IF backend = "memory" THEN memoryReplace(to, st, key, via, rtx)
  ELSE urlReplace(to, st, key, via, rtx)

\* history.go(0) on a URL-backed engine reloads the document, which ends
\* the engine: the model leaves it out.
doGo(n, via, rtx) ==
  IF backend = "memory" THEN memoryGo(n, via, rtx) ELSE n # 0 /\ urlGo(n, via, rtx)

\* history.push(to, state)
push(to, st) ==
  /\ CanCall
  /\ \E key \in Keys : doPush(to, st, key, "call", NoTx)
  /\ UNCHANGED held

\* history.replace(to, state)
replace(to, st) ==
  /\ CanCall
  /\ \E key \in Keys : doReplace(to, st, key, "call", NoTx)
  /\ UNCHANGED held

\* history.go(n); back() is go(-1), forward() is go(1)
go(n) ==
  /\ CanCall
  /\ doGo(n, "call", NoTx)
  /\ UNCHANGED held

\* tx.retry() whose closure for a blocked push calls replace
doRetryMutant(tx) ==
  IF tx.retry.op \in {"push", "replace"}
  THEN \E key \in Keys : doReplace(tx.retry.to, tx.retry.st, key, "retry", tx)
  ELSE doGo(tx.retry.n, "retry", tx)

\* tx.retry() for a Transition tx: the closure calls push(to, state),
\* replace(to, state) or go(n) with the arguments it closed over
doRetry(tx) ==
  IF tx.retry.op = "push"
  THEN \E key \in Keys : doPush(tx.retry.to, tx.retry.st, key, "retry", tx)
  ELSE IF tx.retry.op = "replace"
  THEN \E key \in Keys : doReplace(tx.retry.to, tx.retry.st, key, "retry", tx)
  ELSE doGo(tx.retry.n, "retry", tx)

\* A blocker calls tx.retry() on the Transition it was just given.
retryInBlocker ==
  /\ CanCall
  /\ InCallback /\ stack[1].kind = "blocker"
  /\ doRetry(stack[1].arg)
  /\ UNCHANGED held

\* A blocker keeps the Transition it was given (to ask the user first).
hold ==
  /\ InCallback /\ stack[1].kind = "blocker"
  /\ stack[1].arg \notin held
  /\ Cardinality(held) < MaxHeld
  /\ held' = held \cup {stack[1].arg}
  /\ ev' = Label("hold", stack[1].h, stack[1].arg, FALSE)
  /\ UNCHANGED <<pathVars, returned, backend, entries, index, action, location, listeners, blockers,
                 beforeUnload, blockedPopTx, gEntries, gIndex, pending, events, stack,
                 calls, nav>>

\* User code calls retry() of a Transition kept earlier, once.
retryHeld(tx) ==
  /\ tx \in held
  /\ CanCall
  /\ doRetry(tx)
  /\ held' = held \ {tx}

\* history.listen(listener)
listen(fn) ==
  /\ CanCall
  /\ Len(listeners) < MaxHandlers
  /\ listeners' = EventsPush(listeners, fn)
  /\ returned' = returned \cup {Remover("unlisten", fn)}
  /\ calls' = calls + 1
  /\ ev' = Label("listen", fn, NoTx, FALSE)
  /\ UNCHANGED <<pathVars, backend, entries, index, action, location, blockers, beforeUnload,
                 blockedPopTx, gEntries, gIndex, pending, events, stack, held, nav>>

\* a de-registration that also takes fn out of the arrays the running
\* fan-outs iterate
unlistenInPlace(fn) ==
  /\ UserRuns
  /\ Remover("unlisten", fn) \in returned
  /\ listeners' = EventsRemove(listeners, fn)
  /\ stack' = [k \in 1..Len(stack) |->
                IF stack[k].kind = "listeners"
                THEN [stack[k] EXCEPT !.hs = EventsRemove(@, fn)]
                ELSE stack[k]]
  /\ ev' = Label("unlisten", fn, NoTx, FALSE)
  /\ UNCHANGED <<pathVars, returned, backend, entries, index, action, location, blockers,
                 beforeUnload, blockedPopTx, gEntries, gIndex, pending, events, calls, held,
                 nav>>

\* the function listen() returned for fn, called any number of times
unlisten(fn) ==
  /\ UserRuns
  /\ Remover("unlisten", fn) \in returned
  /\ listeners' = EventsRemove(listeners, fn)
  /\ ev' = Label("unlisten", fn, NoTx, FALSE)
  /\ UNCHANGED <<pathVars, returned, backend, entries, index, action, location, blockers, beforeUnload,
                 blockedPopTx, gEntries, gIndex, pending, events, stack, calls, held, nav>>

\* history.block(blocker); the URL-backed engines attach promptBeforeUnload
\* when the registry then holds one handler
block(fn) ==
  /\ CanCall
  /\ Len(blockers) < MaxHandlers
  /\ blockers' = EventsPush(blockers, fn)
  /\ beforeUnload' = IF backend \in UrlBacked /\ Len(blockers') = 1 THEN TRUE ELSE beforeUnload
  /\ returned' = returned \cup {Remover("unblock", fn)}
  /\ calls' = calls + 1
  /\ ev' = Label("block", fn, NoTx, FALSE)
  /\ UNCHANGED <<pathVars, backend, entries, index, action, location, listeners, blockedPopTx,
                 gEntries, gIndex, pending, events, stack, held, nav>>

\* the function block() returned, detaching promptBeforeUnload whatever the
\* registry then holds
unblockDetaches(fn) ==
  /\ UserRuns
  /\ Remover("unblock", fn) \in returned
  /\ blockers' = EventsRemove(blockers, fn)
  /\ beforeUnload' = IF backend \in UrlBacked THEN FALSE ELSE beforeUnload
  /\ ev' = Label("unblock", fn, NoTx, FALSE)
  /\ UNCHANGED <<pathVars, returned, backend, entries, index, action, location, listeners,
                 blockedPopTx, gEntries, gIndex, pending, events, stack, calls, held, nav>>

\* the function block() returned for fn, called any number of times; the
\* URL-backed engines detach promptBeforeUnload when the registry is then
\* empty
unblock(fn) ==
  /\ UserRuns
  /\ Remover("unblock", fn) \in returned
  /\ blockers' = EventsRemove(blockers, fn)
  /\ beforeUnload' = IF backend \in UrlBacked /\ Len(blockers') = 0 THEN FALSE ELSE beforeUnload
  /\ ev' = Label("unblock", fn, NoTx, FALSE)
  /\ UNCHANGED <<pathVars, returned, backend, entries, index, action, location, listeners, blockedPopTx,
                 gEntries, gIndex, pending, events, stack, calls, held, nav>>

\* ------------------------------------------------------ fan-out of a call
\* handlers.forEach(fn => fn && fn(arg)): the next handler of the running
\* fan-out is called with its argument.
invoke ==
  /\ stack # <<>>
  /\ stack[1].kind \in {"listeners", "blockers"}
  /\ stack[1].i <= Len(stack[1].hs)
  /\ LET f == stack[1]
         fn == f.hs[f.i]
         kind == IF f.kind = "listeners" THEN "listener" ELSE "blocker"
     IN /\ stack' = <<Callback(kind, fn, f.arg, f.cause),
                      [f EXCEPT !.i = f.i + 1, !.called = Append(f.called, fn)]>>
                    \o Tail(stack)
        /\ ev' = Label(kind, fn, f.arg, FALSE)
  /\ UNCHANGED <<pathVars, returned, backend, entries, index, action, location, listeners, blockers,
                 beforeUnload, blockedPopTx, gEntries, gIndex, pending, events, calls,
                 held, nav>>

\* The running subscriber returns; when it was the last handler of its
\* fan-out, forEach returns too and the caller goes on: handlePop's
\* blockers.call(blockedPopTx) is followed by blockedPopTx = null.
return ==
  /\ InCallback
  /\ LET f == stack[2]
         finished == f.i > Len(f.hs)
         rest == IF finished THEN Tail(Tail(stack)) ELSE Tail(stack)
     IN /\ stack' = rest
        /\ blockedPopTx' = IF finished /\ f.cont = "clearPop" THEN NoTx ELSE blockedPopTx
  /\ ev' = Label("return", "", NoTx, FALSE)
  /\ UNCHANGED <<pathVars, returned, backend, entries, index, action, location, listeners, blockers,
                 beforeUnload, gEntries, gIndex, pending, events, calls, held, nav>>

\* The running subscriber throws.  forEach has no try/catch: the error ends
\* the fan-out and the engine function that started it (what that function
\* does after the fan-out, blockedPopTx = null in handlePop, is not done)
\* and reaches the code that called the engine: the subscriber below, which
\* may catch it and go on or throw in turn, or the top level.
raise ==
  /\ InCallback
  /\ stack' = Tail(Tail(stack))
  /\ ev' = Label("raise", stack[1].h, stack[1].arg, FALSE)
  /\ UNCHANGED <<pathVars, returned, backend, entries, index, action, location, listeners,
                 blockers, beforeUnload, blockedPopTx, gEntries, gIndex, pending, events,
                 calls, held, nav>>

\* ------------------------------------------------------- platform events
\* The platform carries out the oldest pending traversal.  A delta that
\* leaves the session history does nothing; otherwise the current entry
\* changes and popstate is dispatched to handlePop (then hashchange).
traverse ==
  /\ AtTopLevel
  /\ pending # <<>>
  /\ backend \in UrlBacked
  /\ LET target == gIndex + Head(pending).n
     IN IF target \in 0..(Len(gEntries) - 1)
        THEN /\ gIndex' = target
             /\ events' = hashChangeEvents(backend, gEntries[gIndex + 1].url,
                                           gEntries[target + 1].url)
             /\ handlePop(getIndexAndLocation(backend, gEntries, target), Tail(pending),
                          "popstate")
             /\ UNCHANGED <<gEntries>>
        ELSE /\ pending' = Tail(pending)
             /\ ev' = Label("traverse", "", NoTx, FALSE)
             /\ UNCHANGED <<index, action, location, blockedPopTx, gEntries, gIndex,
                            events, stack, nav>>
  /\ UNCHANGED <<pathVars, returned, backend, entries, listeners, blockers, beforeUnload, calls, held>>

\* The user navigates to a fragment by hand: the platform adds an entry
\* without history.state and dispatches popstate to handlePop (then
\* hashchange).
navigateFragment(fragment) ==
  /\ AtTopLevel
  /\ calls < MaxCalls
  /\ backend \in UrlBacked
  /\ LET url == fragmentUrl(backend, gEntries[gIndex + 1].url, fragment)
         g == pushState(gEntries, gIndex, NullState, url)
     IN /\ url # gEntries[gIndex + 1].url
        /\ Len(g.entries) <= MaxEntries
        /\ gEntries' = g.entries
        /\ gIndex' = g.index
        /\ events' = hashChangeEvents(backend, gEntries[gIndex + 1].url, url)
        /\ handlePop(getIndexAndLocation(backend, g.entries, g.index), pending, "fragment")
  /\ calls' = calls + 1
  /\ UNCHANGED <<pathVars, returned, backend, entries, listeners, blockers, beforeUnload, held>>

\* a hashchange listener that calls handlePop() whatever the path is
hashchangeReadAlways(read) == handlePop(read, pending, "hashchange")

\* createHashHistory's hashchange listener, having read [, nextLocation] =
\* getIndexAndLocation(): handlePop() unless the path the platform shows is
\* the engine's path.
hashchangeRead(read) ==
  IF createPath(read[2]) # createPath(location)
  THEN handlePop(read, pending, "hashchange")
  ELSE /\ ev' = Label("hashchange ignored", "", NoTx, FALSE)
       /\ UNCHANGED <<index, action, location, blockedPopTx, pending, stack, nav>>

\* The platform dispatches the hashchange event it fired.
hashchange ==
  /\ stack = <<>>
  /\ events # <<>>
  /\ Head(events) = "hashchange"
  /\ hashchangeRead(getIndexAndLocation(backend, gEntries, gIndex))
  /\ events' = Tail(events)
  /\ UNCHANGED <<pathVars, returned, backend, entries, listeners, blockers, beforeUnload, gEntries, gIndex,
                 calls, held>>

\* -------------------------------------------------------------------- Next
Next ==
  \/ \E c \in Calls : push(c.to, c.st)
  \/ \E c \in Calls : replace(c.to, c.st)
  \/ \E n \in (-MaxGo)..MaxGo : go(n)
  \/ retryInBlocker
  \/ hold
  \/ \E tx \in held : retryHeld(tx)
  \/ \E fn \in Listeners : listen(fn)
  \/ \E fn \in Listeners : unlisten(fn)
  \/ \E fn \in Blockers : block(fn)
  \/ \E fn \in Blockers : unblock(fn)
  \/ invoke
  \/ return
  \/ raise
  \/ traverse
  \/ \E fragment \in Fragments : navigateFragment(fragment)
  \/ hashchange

Spec == Init /\ [][Next]_vars

\* ------------------------------------------- a platform that rejects pushState
\* window.location.assign(url) in the catch of push, as applyTx then finds
\* the platform.  createBrowserHistory: the navigation to another document
\* has only begun, the current entry is still the old one, and the document
\* is unloaded once the running code is done.  createHashHistory: url is the
\* fragment "#" + path, a navigation within the document: the platform adds
\* an entry without history.state at once and dispatches popstate and
\* hashchange afterwards.
locationAssign(b, ge, gi, url) ==
  IF b = "hash"
  THEN LET g == pushState(ge, gi, NullState, url)
       IN [entries |-> g.entries, index |-> g.index,
           events |-> hashChangeEvents(b, ge[gi + 1].url, url),
           pending |-> <<[n |-> 0, revert |-> FALSE]>>]
  ELSE [entries |-> ge, index |-> gi, events |-> <<"unload">>, pending |-> <<>>]

\* push(to, state) of createBrowserHistory and createHashHistory when
\* globalHistory.pushState raises (the platform limits the session history
\* to MaxEntries entries): catch (error) { window.location.assign(url) },
\* then applyTx(nextAction) all the same.
pushOverLimit(to, st) ==
  /\ CanCall
  /\ backend \in UrlBacked
  /\ allowTx(blockers)
  /\ \E key \in Keys :
       LET nextLocation == getNextLocation(location, to, st, key)
           retry == [op |-> "push", to |-> to, st |-> st, n |-> 0]
           hsu == getHistoryStateAndUrl(backend, nextLocation, JsAdd(index, Num(1)))
           a == locationAssign(backend, gEntries, gIndex, hsu.url)
       IN /\ Len(pushState(gEntries, gIndex, hsu.state, hsu.url).entries) > MaxEntries
          /\ gEntries' = a.entries
          /\ gIndex' = a.index
          /\ events' = events \o a.events
          /\ pending' = pending \o a.pending
          /\ urlApplyTx(stack, Push, getIndexAndLocation(backend, a.entries, a.index), "push")
          /\ ev' = Label("push", "pushState raised", Transition(Push, nextLocation, retry),
                         backend = "hash" /\ ~StartsWithSlash(nextLocation.pathname))
          /\ nav' = NavRecord("push", "call", to, st, 0, TRUE, index, location, nav)
  /\ calls' = calls + 1
  /\ UNCHANGED <<pathVars, returned, backend, entries, listeners, blockers, beforeUnload,
                 blockedPopTx, held>>

LimitNext == Next \/ \E c \in Calls : pushOverLimit(c.to, c.st)

LimitSpec == Init /\ [][LimitNext]_vars

\* ------------------------------------------------- the path codec on its own
engineVars == <<backend, entries, index, action, location, listeners, blockers,
                beforeUnload, blockedPopTx, gEntries, gIndex, pending, events, stack,
                calls, held, returned, ev, nav>>

\* A caller holds a path string and no history was created.
PathInit ==
  /\ givenPath \in Paths
  /\ parsedPath = EmptyObject
  /\ createdPath = <<>>
  /\ pathStep = "given"
  /\ backend = "none"
  /\ entries = <<>>
  /\ index = 0
  /\ action = Pop
  /\ location = NoLocation
  /\ listeners = <<>>
  /\ blockers = <<>>
  /\ beforeUnload = FALSE
  /\ blockedPopTx = NoTx
  /\ gEntries = <<>>
  /\ gIndex = 0
  /\ pending = <<>>
  /\ events = <<>>
  /\ stack = <<>>
  /\ calls = 0
  /\ held = {}
  /\ returned = {}
  /\ ev = Label("none", "", NoTx, FALSE)
  /\ nav = NavRecord("none", "call", <<>>, "undefined", 0, FALSE, 0, NoLocation, NoPrev)

\* parsePath(givenPath)
callParsePath ==
  /\ pathStep = "given"
  /\ parsedPath' = parsePath(givenPath)
  /\ pathStep' = "parsed"
  /\ UNCHANGED <<givenPath, createdPath, engineVars>>

\* createPath(parsedPath)
callCreatePath ==
  /\ pathStep = "parsed"
  /\ createdPath' = createPath(parsedPath)
  /\ pathStep' = "created"
  /\ UNCHANGED <<givenPath, parsedPath, engineVars>>

PathNext == callParsePath \/ callCreatePath

PathSpec == PathInit /\ [][PathNext]_vars

\* ================================================================ properties
\* A step starts a fan-out to the listeners.
ListenersCallStarted == Len(stack') > Len(stack) /\ stack'[1].kind = "listeners"

\* A step is a call of some Transition's retry() that runs to a commit or
\* a block within the call (every retry() of the in-memory engine; the
\* retry() of a push or replace of the URL-backed engines).
SyncRetry == ev'.op = "retry" /\ (backend = "memory" \/ ev'.tx.retry.op # "go")

\* A step applies exactly one Update: the cursor takes the action and the
\* location of the Update, and one fan-out starts over the listeners
\* registered at that moment, carrying that Update.
OneUpdateApplied ==
  /\ nav'.committed
  /\ IF listeners = <<>>
     THEN stack' = stack
     ELSE /\ Tail(stack') = stack
          /\ stack'[1].kind = "listeners"
          /\ stack'[1].hs = listeners
          /\ stack'[1].i = 1
          /\ stack'[1].arg = Update(action', location')

\* In every running fan-out the handlers called so far are those before
\* the position of the next one, each once, in order.
EachCalledOnce ==
  \A k \in 1..Len(stack) :
    stack[k].kind \in {"listeners", "blockers"} =>
      stack[k].called = SubSeq(stack[k].hs, 1, stack[k].i - 1)

\* C1: in every backend, while a blocker stays registered, no push, replace,
\* go, retry() or detected Pop changes the engine's action, location, index
\* or in-memory entries, and none starts a call of the listeners.
C1_BlockedLeavesCursor ==
  [][(blockers # <<>> /\ blockers' # <<>>) =>
       /\ action' = action
       /\ location' = location
       /\ index' = index
       /\ entries' = entries
       /\ ~ListenersCallStarted]_vars

\* C1 witness: a push, replace or go was blocked, its blockers have run and
\* returned, a blocker is still registered and the cursor is where it was.
C1_Witness ==
  /\ blockers # <<>>
  /\ stack = <<>>
  /\ ev.op = "return"
  /\ nav.op \in {"push", "replace", "go"}
  /\ nav.via = "call"
  /\ ~nav.committed
  /\ location = nav.preLoc
  /\ index = nav.preIndex

\* C2 as stated: a call of retry() applies exactly one Update, whether or
\* not a blocker is registered when it is called.
C2_RetryAlwaysApplies == [][SyncRetry => OneUpdateApplied]_vars

\* What a call of retry() does, with and without a registered blocker.
C2_RetryStep ==
  /\ (SyncRetry /\ blockers = <<>>) => (OneUpdateApplied /\ action' = ev'.tx.action)
  /\ (SyncRetry /\ blockers # <<>>) =>
       /\ ~nav'.committed
       /\ action' = action
       /\ location' = location
       /\ index' = index
       /\ ~ListenersCallStarted
  /\ EachCalledOnce'

\* C2 amended: a call of retry() made while no blocker is registered applies
\* exactly one Update, with the action of the Transition, each registered
\* listener called once in order; a call made while a blocker is registered
\* applies none (the cursor stays and no call of the listeners starts).
C2_RetryAppliesWhenUnblocked == [][C2_RetryStep]_vars

\* C2 witness: a retry() called with no blocker registered has committed and
\* the fan-out to a registered listener has started.
C2_Witness ==
  /\ ev.op = "retry"
  /\ nav.committed
  /\ blockers = <<>>
  /\ stack # <<>>
  /\ stack[1].kind = "listeners"
  /\ stack[1].arg = Update(action, location)

\* The same navigation target: pathname, search, hash and state (no state
\* given reads back as null from the platform).
SameTarget(l1, l2) ==
  /\ l1.pathname = l2.pathname
  /\ l1.search = l2.search
  /\ l1.hash = l2.hash
  /\ (IF l1.state = "undefined" THEN "null" ELSE l1.state)
       = (IF l2.state = "undefined" THEN "null" ELSE l2.state)

\* C3: whenever a call of retry() commits, the committed location has the
\* pathname, search, hash and state of the location the Transition carried.
C3_RetryCommitsBlockedLocation ==
  [][(ev'.op = "retry" /\ nav'.committed) => SameTarget(location', ev'.tx.location)]_vars

\* A step is a call of the in-memory engine's push, replace or go (op),
\* direct or through a retry(), that was committed.
MemoryCommit(op) ==
  /\ backend = "memory"
  /\ ev'.op \in {op, "retry"}
  /\ nav'.op = op
  /\ nav'.committed

\* C4: in the in-memory engine, a committed push from index i yields index
\* i+1 and i+2 entries: entries 0..i are unchanged, entry i+1 is the new
\* location, which is the current location, and nothing is left beyond it.
C4_PushTruncates ==
  [][MemoryCommit("push") =>
       /\ index' = index + 1
       /\ Len(entries') = index + 2
       /\ \A k \in 1..(index + 1) : entries'[k] = entries[k]
       /\ entries'[index + 2] = location'
       /\ location' = getNextLocation(location, nav'.to, nav'.st, location'.key)
       /\ action' = Push]_vars

\* C4 witness: a push was committed at index 0 right after a go(-1) from
\* index 1, so an entry beyond the cursor was discarded.
C4_Witness ==
  /\ backend = "memory"
  /\ ev.op = "push"
  /\ nav.committed
  /\ nav.preIndex = 0
  /\ nav.prev.op = "go"
  /\ nav.prev.n = -1
  /\ nav.prev.committed
  /\ nav.prev.preIndex = 1
  /\ index = 1
  /\ Len(entries) = 2

\* C5: in the in-memory engine, a committed replace keeps the index and
\* the number of entries and changes only the entry at the index; after it
\* action is Replace and location is that entry, the location of the Update
\* the listeners are given (so too for a second identical replace).
C5_ReplaceInPlace ==
  [][MemoryCommit("replace") =>
       /\ index' = index
       /\ Len(entries') = Len(entries)
       /\ \A k \in 1..Len(entries) : k # index + 1 => entries'[k] = entries[k]
       /\ entries'[index + 1] = location'
       /\ location' = getNextLocation(location, nav'.to, nav'.st, location'.key)
       /\ action' = Replace
       /\ listeners # <<>> => stack'[1].arg = Update(Replace, location')]_vars

\* C5 witness: replace(to, s) was committed twice in a row with identical
\* arguments and the second Update is being delivered to the listeners.
C5_Witness ==
  /\ backend = "memory"
  /\ ev.op = "replace"
  /\ nav.op = "replace" /\ nav.committed
  /\ nav.prev.op = "replace" /\ nav.prev.committed
  /\ nav.prev.to = nav.to /\ nav.prev.st = nav.st
  /\ stack # <<>>
  /\ stack[1].kind = "listeners"
  /\ stack[1].arg = Update(Replace, location)

\* i brought into [0, len - 1]
Into(i, len) == IF i < 0 THEN 0 ELSE IF i > len - 1 THEN len - 1 ELSE i

\* C6: the in-memory engine starts at initialIndex brought into
\* [0, length - 1]; after a committed go(n) the index is the index before
\* plus n brought into that range, the location is the entry there and the
\* action is Pop; the index is always within the entries.
C6_GoClamps ==
  backend = "memory" =>
    /\ index \in 0..(Len(entries) - 1)
    /\ ev.op = "init" => index = Into(ev.tx.retry.n, Len(entries))
    /\ (ev.op \in {"go", "retry"} /\ nav.op = "go" /\ nav.committed) =>
         /\ index = Into(nav.preIndex + nav.n, Len(entries))
         /\ location = entries[index + 1]
         /\ action = Pop

\* C6 witness: go(1) at the last of two entries was committed and stayed
\* at the last entry.
C6_Witness ==
  /\ backend = "memory"
  /\ ev.op = "go"
  /\ nav.committed
  /\ nav.n = 1
  /\ Len(entries) = 2
  /\ nav.preIndex = 1
  /\ index = 1

\* A step is a committed go(1) of the in-memory engine whose previous
\* navigation request was a committed go(-1).
BackThenForward ==
  /\ MemoryCommit("go")
  /\ nav'.n = 1
  /\ nav.op = "go"
  /\ nav.n = -1
  /\ nav.committed

\* C7 as stated: go(-1) followed by go(1) restores the location (same key)
\* and the index from any state.
C7_BackForwardRestores ==
  [][BackThenForward => index' = nav.preIndex /\ location' = nav.preLoc]_vars

\* C7 amended: in the in-memory engine, from a state with no blockers whose
\* index is at least 1, go(-1) followed by go(1) with no other navigation
\* request between them restores the location (same key) and the index.
C7_BackForwardRestoresFromOne ==
  [][(BackThenForward /\ nav.preIndex >= 1) =>
       (index' = nav.preIndex /\ location' = nav.preLoc)]_vars

\* C7 witness: go(-1) from index 1 and then go(1) were committed and the
\* cursor is back at index 1.
C7_Witness ==
  /\ backend = "memory"
  /\ ev.op = "go"
  /\ nav.op = "go" /\ nav.n = 1 /\ nav.committed
  /\ nav.prev.op = "go" /\ nav.prev.n = -1 /\ nav.prev.committed
  /\ nav.prev.preIndex = 1
  /\ index = 1
  /\ location = entries[2]

\* The action an operation commits: Push for push, Replace for replace, Pop
\* for go and for a navigation the platform reports.
ActionOf(cause) ==
  IF cause = "push" THEN Push ELSE IF cause = "replace" THEN Replace ELSE Pop

\* C8: in every backend, the Update of every running call of the listeners,
\* and of every listener running, carries the action of the operation that
\* caused it.
C8_UpdateCarriesAction ==
  \A k \in 1..Len(stack) :
    stack[k].kind \in {"listeners", "listener"} =>
      stack[k].arg.action = ActionOf(stack[k].cause)

\* C8 witness: a listener is running on the Update of a committed replace.
C8_Witness ==
  /\ stack # <<>>
  /\ stack[1].kind = "listener"
  /\ stack[1].cause = "replace"
  /\ stack[1].arg.action = Replace
  /\ nav.op = "replace"
  /\ nav.committed

\* C9: whenever a listener has just been called, the Update it was given is
\* the engine's current action and location.
C9_UpdateIsCursor ==
  (ev.op = "listener" /\ stack # <<>> /\ stack[1].kind = "listener") =>
    (stack[1].arg.action = action /\ stack[1].arg.location = location)

\* A step is a URL-backed engine's handlePop for a Pop it has not blocked
\* before, to a platform entry that carries no index, while a blocker is
\* registered.
UnindexedPopWithBlockers ==
  /\ backend \in UrlBacked
  /\ ev'.op \in {"popstate", "fragment", "hashchange"}
  /\ blockers # <<>>
  /\ blockedPopTx = NoTx
  /\ ~NotNullish(gEntries'[gIndex' + 1].state.idx)

\* C10: a Pop to an entry without an index, detected while a blocker is
\* registered, is applied with a notice: action becomes Pop, location
\* becomes the entry's location and the listeners are called.
C10_UnindexedPopApplied ==
  [][UnindexedPopWithBlockers =>
       /\ ev'.warned
       /\ action' = Pop
       /\ SameTarget(location', ev'.tx.location)
       /\ listeners # <<>> => ListenersCallStarted]_vars

\* A step is a URL-backed engine's handlePop.
PopDetected == backend \in UrlBacked /\ ev'.op \in {"popstate", "fragment", "hashchange"}

\* A step is a handlePop that detects, while a blocker is registered and no
\* Pop is held, a Pop to an entry whose index is not the engine's.
BlockedPopDetected ==
  /\ PopDetected
  /\ blockedPopTx = NoTx
  /\ blockers # <<>>
  /\ index.t = "number"
  /\ gEntries'[gIndex' + 1].state.idx.t = "number"
  /\ gEntries'[gIndex' + 1].state.idx.v # index.v

\* What handlePop does with a Pop it blocks, with the Pop event that
\* follows while the Transition is held, and when the blockers have run.
C11_Step ==
  /\ BlockedPopDetected =>
       /\ blockedPopTx'.action = Pop
       /\ blockedPopTx'.location = ev'.tx.location
       /\ blockedPopTx'.retry.op = "go"
       /\ blockedPopTx'.retry.n = gEntries'[gIndex' + 1].state.idx.v - index.v
       /\ pending' # <<>>
       /\ pending'[Len(pending')].n = index.v - gEntries'[gIndex' + 1].state.idx.v
       /\ pending'[Len(pending')].revert
       /\ stack' = stack
       /\ UNCHANGED <<action, location, index>>
  /\ (PopDetected /\ blockedPopTx # NoTx) =>
       /\ UNCHANGED <<action, location, index>>
       /\ ~ListenersCallStarted
       /\ IF blockers = <<>>
          THEN stack' = <<>> /\ blockedPopTx' = NoTx
          ELSE /\ Len(stack') = 1
               /\ stack'[1].kind = "blockers"
               /\ stack'[1].hs = blockers
               /\ stack'[1].i = 1
               /\ stack'[1].arg = blockedPopTx
               /\ blockedPopTx' = blockedPopTx
  /\ (Len(stack') > Len(stack) /\ stack'[1].kind = "blockers" /\ stack'[1].cause = "pop") =>
       (blockedPopTx # NoTx /\ stack'[1].arg = blockedPopTx)
  /\ (ev'.op = "return" /\ stack[2].cont = "clearPop" /\ stack[2].i > Len(stack[2].hs)) =>
       (blockedPopTx' = NoTx /\ stack[2].called = stack[2].hs)

\* A step is the Pop event of a traversal handlePop asked for to revert a
\* Pop it blocked.
RevertPopDetected == ev'.op = "popstate" /\ pending # <<>> /\ Head(pending).revert

\* C11: in the URL-backed engines a Pop to an entry with another index,
\* detected while a blocker is registered, makes the engine ask the platform
\* to move by index - nextIndex and hold one Transition (Pop, the detected
\* location) whose retry() moves by the opposite delta; the Transition is
\* handed to every registered blocker once and dropped when they have run;
\* the Pop event of the counter-move never starts a call of the listeners.
C11_BlockedPopRoundTrip ==
  [][C11_Step /\ (RevertPopDetected => ~ListenersCallStarted)]_vars

\* C12: in the browser and hash engines promptBeforeUnload is attached to the
\* window exactly when the blockers registry holds at least one handler,
\* whatever block() and unblock calls were made (the same blocker registered
\* more than once, an unblock function called more than once).
C12_BeforeUnloadIffBlocked ==
  backend \in UrlBacked => (beforeUnload <=> Len(blockers) > 0)

\* A URL-backed engine on which block(f1) was called twice and nothing else,
\* after the unblock function was called.
C12_Witness ==
  /\ backend \in UrlBacked
  /\ returned = {Remover("unblock", "f1")}
  /\ calls = 2
  /\ nav.op = "init"
  /\ ev.op = "unblock"
  /\ blockers = <<>>
  /\ ~beforeUnload

\* C13: the location of a newly created history has the key "default", in
\* the memory engine and in the URL-backed engines (whose platform entry
\* carries no key when the document was freshly loaded).
C13_InitialKeyDefault ==
  ev.op = "init" => location.key = "default"

\* createPath(parsePath(p)) is p, for every path string p.
C14_RoundTrip ==
  pathStep = "created" => createdPath = givenPath

\* C14: createPath(parsePath(p)) is p for every path string p that starts
\* with a pathname, that is, is not empty and does not start with "?" or "#";
\* createPath writes "/" for the pathname parsePath did not find.
C14_RoundTripWithPathname ==
  (pathStep = "created" /\ givenPath # <<>> /\ givenPath[1] \notin {"?", "#"})
    => createdPath = givenPath

\* The path "/?a#" went through parsePath and createPath.
C14_Witness ==
  /\ pathStep = "created"
  /\ givenPath = <<"/", "?", "a", "#">>
  /\ DOMAIN parsedPath = {"pathname", "search", "hash"}
  /\ createdPath = givenPath

\* The position of the first character of p that is one of cs, or
\* Len(p) + 1 when there is none.
FirstOf(p, cs) ==
  CHOOSE i \in 1..(Len(p) + 1) :
    /\ i = Len(p) + 1 \/ p[i] \in cs
    /\ \A j \in 1..(i - 1) : p[j] \notin cs

\* C15: parsePath(path) holds as hash everything from the first "#" on, as
\* search everything from the first "?" before that "#" up to it, and as
\* pathname what precedes both when it is not empty; a piece that does not
\* occur is absent from the result, so a "?" after the first "#" is part of
\* hash and never of search.
C15_ParsePathSplits ==
  pathStep \in {"parsed", "created"} =>
    LET hashAt == FirstOf(givenPath, {"#"})
        searchAt == FirstOf(givenPath, {"?", "#"})
    IN /\ "hash" \in DOMAIN parsedPath <=> hashAt <= Len(givenPath)
       /\ "hash" \in DOMAIN parsedPath =>
            parsedPath["hash"] = SubSeq(givenPath, hashAt, Len(givenPath))
       /\ "search" \in DOMAIN parsedPath <=> searchAt < hashAt
       /\ "search" \in DOMAIN parsedPath =>
            parsedPath["search"] = SubSeq(givenPath, searchAt, hashAt - 1)
       /\ "pathname" \in DOMAIN parsedPath <=> searchAt > 1
       /\ "pathname" \in DOMAIN parsedPath =>
            parsedPath["pathname"] = SubSeq(givenPath, 1, searchAt - 1)
       /\ DOMAIN parsedPath \subseteq {"pathname", "search", "hash"}

\* The path "/#?a" was parsed: its "?" follows the "#".
C15_Witness ==
  /\ pathStep = "parsed"
  /\ givenPath = <<"/", "#", "?", "a">>
  /\ DOMAIN parsedPath = {"pathname", "hash"}
  /\ parsedPath["hash"] = <<"#", "?", "a">>

\* C16: a fan-out of the registry ends only when every handler that was
\* registered when it started has been called, in registration order, also
\* when one of them raised an error.
C16_ErrorDoesNotStopFanOut ==
  [][(ev'.op \in {"return", "raise"} /\ stack' = Tail(Tail(stack)))
       => stack[2].called = stack[2].hs]_vars

\* hs2 is hs, or hs without one registration of h.
WithoutOne(hs, hs2, h) ==
  \/ hs2 = hs
  \/ \E i \in 1..Len(hs) : hs[i] = h /\ hs2 = SubSeq(hs, 1, i - 1) \o SubSeq(hs, i + 1, Len(hs))

\* C17: a call of the function a listen() or block() registration returned
\* removes at most that one registration: the count drops by one at most,
\* every other registration (a second one of the same function too) stays,
\* in order; when the function is not registered nothing changes.
C17_RemovesOneRegistration ==
  [][/\ ev'.op = "unlisten" => WithoutOne(listeners, listeners', ev'.h)
     /\ ev'.op = "unblock" => WithoutOne(blockers, blockers', ev'.h)]_vars

\* The candidate location cand of a push or replace called with the path to
\* and the state st while the current location is current.
CandidateOf(cand, to, st, current) ==
  LET hashAt == FirstOf(to, {"#"})
      searchAt == FirstOf(to, {"?", "#"})
  IN /\ cand.pathname = IF searchAt > 1 THEN SubSeq(to, 1, searchAt - 1) ELSE current.pathname
     /\ cand.search = IF searchAt < hashAt THEN SubSeq(to, searchAt, hashAt - 1)
                      ELSE current.search
     /\ cand.hash = IF hashAt <= Len(to) THEN SubSeq(to, hashAt, Len(to)) ELSE current.hash
     /\ cand.state = st

\* What a push(to, state) or replace(to, state) builds and leaves alone.
C18_Step ==
  ev'.op \in {"push", "replace"} =>
    /\ CandidateOf(ev'.tx.location, ev'.tx.retry.to, ev'.tx.retry.st, location)
    /\ nav'.preLoc = location
    /\ ~nav'.committed => location' = location
    /\ (nav'.committed /\ backend = "memory" /\ ev'.op = "push") => entries'[index + 1] = location

\* C18: the location push(to, state) or replace(to, state) builds takes
\* pathname, search and hash from `to` where `to` has them and from the
\* current location where it has not, and its state from the state argument,
\* never from the current location; the current location value is not
\* modified (it stays the location while the call is blocked, and stays in
\* the memory engine's stack under a push).
C18_NextLocationFromToAndCurrent == [][C18_Step]_vars

\* push("?q") with no state was called while the location was /b with the
\* state "s1".
C18_Witness ==
  /\ ev.op = "push"
  /\ ev.tx.retry.to = <<"?", "q">>
  /\ nav.preLoc.pathname = <<"/", "b">>
  /\ nav.preLoc.state = "s1"
  /\ ev.tx.location.pathname = <<"/", "b">>
  /\ ev.tx.location.search = <<"?", "q">>
  /\ ev.tx.location.state = "undefined"

\* What the notice of a push or replace of the hash and memory engines
\* depends on.
C19_Step ==
  (backend \in {"memory", "hash"} /\ ev'.op \in {"push", "replace"}) =>
    /\ ev'.warned <=> ~StartsWithSlash(ev'.tx.location.pathname)
    /\ blockers = <<>> => nav'.committed

\* C19: in the hash and memory engines a push or replace emits the notice
\* about relative pathnames exactly when the pathname of its target does not
\* start with "/", whatever the current location is, and is carried out
\* either way.
C19_WarnsOnRelativeTarget == [][C19_Step]_vars

\* A push whose pushState raised is applied in full or not at all.
C20_Step ==
  (ev'.op = "push" /\ ev'.h = "pushState raised") =>
    \/ /\ action' = Push
       /\ SameTarget(location', ev'.tx.location)
       /\ index' = JsAdd(index, Num(1))
       /\ listeners # <<>> => (ListenersCallStarted /\ stack'[1].arg = Update(Push, location'))
    \/ /\ UNCHANGED <<action, location, index>>
       /\ ~ListenersCallStarted

\* C20: in the URL-backed engines a push whose pushState the platform
\* rejects does not raise, and is either applied in full (the listeners get
\* Update(Push, the pushed location), the cursor is the pushed location at
\* index + 1) or abandoned (no listener is called; action, location and
\* index are unchanged).
C20_RejectedPushAllOrNothing == [][C20_Step]_vars

\* A step is a call of push or replace, or of the in-memory engine's go.
DirectCall == ev'.op \in {"push", "replace"} \/ (backend = "memory" /\ ev'.op = "go")

\* What a call made while no blocker is registered does before it returns.
C21_Step ==
  /\ (DirectCall /\ blockers = <<>>) =>
       /\ OneUpdateApplied
       /\ action' = ActionOf(ev'.op)
       /\ SameTarget(location', ev'.tx.location)
       /\ (backend = "memory" /\ ev'.op = "go") =>
            /\ index' = Into(index + ev'.tx.retry.n, Len(entries))
            /\ location' = entries[index' + 1]
  /\ (stack # <<>> /\ stack[1].kind = "listeners") => ev'.op = "listener"
  /\ (ev'.op = "return" /\ stack' = Tail(Tail(stack)) /\ stack[2].kind = "listeners") =>
       stack[2].called = stack[2].hs

PathShown(ge, gi) == createPath(getIndexAndLocation("hash", ge, gi)[2])

\* A step is createHashHistory's handlePop for a popstate event.
HashPop == backend = "hash" /\ ev'.op \in {"popstate", "fragment"}

\* A step is createHashHistory's hashchange listener, calling handlePop.
HashChangePop == backend = "hash" /\ ev'.op = "hashchange"

\* What the popstate event of a navigation does in the hash engine, and what
\* its hashchange event finds.
C22_PopThenHashChange ==
  /\ (HashPop /\ blockers = <<>> /\ blockedPopTx = NoTx) =>
       /\ action' = Pop
       /\ createPath(location') = PathShown(gEntries', gIndex')
       /\ listeners # <<>> =>
            /\ ListenersCallStarted
            /\ stack'[1].hs = listeners
            /\ stack'[1].arg = Update(Pop, location')
  /\ (backend = "hash" /\ events # <<>> /\ ev'.op \notin {"hashchange", "hashchange ignored"}
        /\ createPath(location) = PathShown(gEntries, gIndex)) =>
       createPath(location') = PathShown(gEntries', gIndex')
  /\ (backend = "hash" /\ ev'.op \in {"hashchange", "hashchange ignored"}
        /\ createPath(location) = PathShown(gEntries, gIndex)) =>
       /\ ev'.op = "hashchange ignored"
       /\ stack' = stack
       /\ UNCHANGED <<action, location, index, blockedPopTx>>
  /\ (HashPop /\ blockers # <<>> /\ blockedPopTx = NoTx) =>
       /\ stack' = stack
       /\ UNCHANGED <<action, location, index>>
  /\ (HashPop /\ BlockedPopDetected /\ events' # <<>>) =>
       createPath(location') # PathShown(gEntries', gIndex')

\* One fan-out over the registered blockers starts, and none over the
\* listeners.
BlockersCallStarted ==
  /\ Len(stack') = Len(stack) + 1
  /\ stack'[1].kind = "blockers"
  /\ stack'[1].hs = blockers
  /\ stack'[1].i = 1

\* In the hash engine the popstate and the hashchange event of one
\* navigation give each listener one Update when no blocker is registered
\* and notify each blocker once when one is; a hashchange event that finds
\* the engine on the path the platform shows is ignored.
C22_Step ==
  /\ C22_PopThenHashChange
  /\ (HashChangePop /\ blockers # <<>>) => BlockersCallStarted

C22_OneNotificationPerNavigation == [][C22_Step]_vars

\* As C22_Step, with the notification of the blockers for the Pop that
\* handlePop holds only.
C22_StepIndexed ==
  /\ C22_PopThenHashChange
  /\ (HashChangePop /\ blockers # <<>> /\ blockedPopTx # NoTx) =>
       (BlockersCallStarted /\ stack'[1].arg = blockedPopTx)
  /\ (HashChangePop /\ blockers # <<>> /\ blockedPopTx = NoTx) =>
       /\ stack' = stack
       /\ UNCHANGED <<action, location, index>>
       /\ ~NotNullish(gEntries'[gIndex' + 1].state.idx) => ev'.warned

\* C22: in the hash engine the popstate event of a navigation gives each
\* listener one Update when no blocker is registered, and the hashchange
\* event that follows finds the engine on the path the platform shows and is
\* ignored; when a blocker is registered and the entry carries an index
\* other than the engine's, popstate notifies nobody and holds the Pop, and
\* hashchange starts the one fan-out over the blockers with the held
\* Transition; when a blocker is registered and no Pop is held, hashchange
\* notifies nobody (for an entry without index it emits the notice only).
C22_OneNotificationWhenIndexed == [][C22_StepIndexed]_vars

\* The hashchange event of a blocked Pop has handed the held Transition to
\* the blockers of the hash engine.
C22_Witness ==
  /\ backend = "hash"
  /\ ev.op = "hashchange"
  /\ Len(stack) = 1
  /\ stack[1].kind = "blockers"
  /\ blockedPopTx # NoTx
  /\ stack[1].arg = blockedPopTx
  /\ nav.prev.op = "pop"

\* C23: in every state of the in-memory engine (created with at least one
\* initial entry) the index is within the entries and the location is the
\* entry at the index.
C23_CursorWithinEntries ==
  backend = "memory" =>
    /\ entries # <<>>
    /\ 0 <= index
    /\ index <= Len(entries) - 1
    /\ location = entries[index + 1]

\* The in-memory engine after a retry() committed a push onto the third
\* entry.
C23_Witness ==
  /\ backend = "memory"
  /\ ev.op = "retry"
  /\ nav.op = "push"
  /\ nav.committed
  /\ Len(entries) = 3
  /\ index = 2
  /\ location = entries[3]

\* The engine's cursor.
cursor == <<action, location, index>>

\* When the cursor changes and the listeners are called, and what a retry()
\* called while a blocker is registered does.
C24_Step ==
  /\ (cursor' # cursor \/ ListenersCallStarted) => blockers = <<>>
  /\ (ev'.op = "retry" /\ blockers # <<>>) =>
       /\ ~nav'.committed
       /\ cursor' = cursor
       /\ entries' = entries
       /\ IF SyncRetry
          THEN /\ BlockersCallStarted
               /\ stack'[1].arg.action = ActionOf(ev'.tx.retry.op)
               /\ stack'[1].arg.retry = ev'.tx.retry
          ELSE /\ stack' = stack
               /\ pending' = Append(pending, [n |-> ev'.tx.retry.n, revert |-> FALSE])
  /\ (PopDetected /\ blockedPopTx # NoTx /\ blockers # <<>>) =>
       (BlockersCallStarted /\ stack'[1].arg = blockedPopTx)

\* C24: in every backend the cursor (action, location, index) changes and a
\* fan-out over the listeners starts only in a step taken while no blocker
\* is registered; a retry() called while a blocker is registered commits
\* nothing and hands the blockers a new Transition for the same request (the
\* retry() of a go of the URL-backed engines asks the platform for the
\* traversal, and the blockers get the Transition of the Pop it is reported
\* as).
C24_CommitOnlyUnblocked == [][C24_Step]_vars

\* A retry() called inside a blocker, while a blocker was registered, has
\* started a new fan-out over the blockers and committed nothing.
C24_Witness ==
  /\ ev.op = "retry"
  /\ ~nav.committed
  /\ Len(stack) >= 3
  /\ stack[1].kind = "blockers"
  /\ stack[1].i = 1
  /\ stack[1].hs = blockers
  /\ stack[2].kind = "blocker"

\* Every entry of the platform's session history carries an index.
AllIndexed == \A i \in 1..Len(gEntries) : gEntries[i].state.idx.t = "number"

\* The engine shows the platform's current entry.
ShowsCurrentEntry ==
  /\ index = gEntries[gIndex + 1].state.idx
  /\ location = getIndexAndLocation(backend, gEntries, gIndex)[2]

\* C25: in the URL-backed engines, while every platform entry carries an
\* index and the platform has no traversal to carry out and no event to
\* dispatch, the engine's index and location are those of the platform's
\* current entry.
C25_EngineShowsCurrentEntry ==
  (backend \in UrlBacked /\ AllIndexed /\ pending = <<>> /\ events = <<>>) => ShowsCurrentEntry

\* A fan-out takes the handlers registered when it starts and keeps to them.
C26_Step ==
  /\ (Len(stack') > Len(stack) /\ stack'[1].kind = "listeners") =>
       (stack'[1].hs = listeners /\ stack'[1].i = 1 /\ Tail(stack') = stack)
  /\ (Len(stack') > Len(stack) /\ stack'[1].kind = "blockers") =>
       (stack'[1].hs = blockers /\ stack'[1].i = 1)
  /\ ev'.op \in {"listen", "unlisten", "block", "unblock"} => stack' = stack
  /\ ev'.op \in {"listener", "blocker"} =>
       /\ ev'.h = stack[1].hs[stack[1].i]
       /\ stack'[2].hs = stack[1].hs
       /\ stack'[2].called = Append(stack[1].called, ev'.h)
  /\ (ev'.op = "return" /\ stack' = Tail(Tail(stack))) => stack[2].called = stack[2].hs

\* C26: a fan-out of the registry runs over the handlers registered when it
\* started: a handler de-registered by an earlier handler during the
\* fan-out is still called in it, a handler added during the fan-out is not,
\* and the next fan-out takes the registry as it then is.
C26_FanOutOverSnapshot == [][C26_Step]_vars

\* The first listener of a fan-out de-registered the second, which is
\* running all the same.
C26_Witness ==
  /\ ev.op = "listener"
  /\ stack[1].kind = "listener"
  /\ stack[1].h = "f2"
  /\ stack[2].called = <<"f1", "f2">>
  /\ "f2" \notin Range(listeners)
  /\ "f1" \in Range(listeners)

\* The handlers a running fan-out has yet to call for the first time.
Uncalled(f) == Range(SubSeq(f.hs, f.i, Len(f.hs))) \ Range(f.called)

\* C27: every listener receives the Updates in the order of the commits: a
\* listener is called with the Update of a commit made inside a listener
\* only when no fan-out of an earlier commit has yet to call it.
C27_UpdatesInCommitOrder ==
  [][ev'.op = "listener" =>
       \A k \in 2..Len(stack) :
         stack[k].kind = "listeners" => ev'.h \notin Uncalled(stack[k])]_vars

\* A blocker calls, inside its callback, the retry() of the Transition it
\* was called with, and the retry acts within the call.
RetryInside ==
  /\ SyncRetry
  /\ InCallback
  /\ stack[1].kind = "blocker"
  /\ ev'.tx = stack[1].arg

\* The fan-outs over the blockers that calls of push, replace and go have
\* started and that have not returned.
BlockedCalls ==
  {k \in 1..Len(stack) : stack[k].kind = "blockers" /\ stack[k].cause # "pop"}

\* The original statement of C28: a blocker is notified once for a call,
\* also when a blocker calls retry() inside its callback; the blocker that
\* the retry() notifies first has not been notified by the call's fan-out.
C28_NotifiedOncePerCall ==
  [][(/\ ev.op = "retry"
      /\ ev'.op = "blocker"
      /\ Len(stack) >= 3
      /\ stack[2].kind = "blocker"
      /\ stack[2].arg = ev.tx
      /\ stack[3].kind = "blockers")
     => ev'.h \notin Range(stack[3].called)]_vars

C28_Step ==
  /\ (stack # <<>> /\ stack[1].kind = "blockers") => ev'.op = "blocker"
  /\ (/\ ev'.op = "return"
      /\ stack' = Tail(Tail(stack))
      /\ stack[2].kind = "blockers") => stack[2].called = stack[2].hs
  /\ (RetryInside /\ blockers # <<>>) =>
       /\ BlockersCallStarted
       /\ Tail(stack') = stack
       /\ calls' = calls + 1
  /\ Cardinality(BlockedCalls) <= calls

\* C28: a fan-out over the blockers, once started, runs without any other
\* step of the engine in between and returns when it has called each
\* blocker registered at its start once; a retry() that a blocker calls
\* inside its callback while a blocker is registered is one more call, which
\* starts a fan-out of its own over all the blockers registered then (the
\* calling one too, unless it was removed), on top of the one that is
\* running, which goes on when the new one has returned; the fan-outs of
\* push, replace and go that are running never outnumber the calls made.
C28_OneFanOutPerCall == [][C28_Step]_vars

\* A blocker called retry() inside its callback and was notified again
\* before the first fan-out went on to the second blocker.
C28_Witness ==
  /\ backend = "memory"
  /\ Len(stack) = 4
  /\ stack[1].kind = "blocker"
  /\ stack[1].h = "f1"
  /\ stack[2].kind = "blockers"
  /\ stack[3].kind = "blocker"
  /\ stack[3].h = "f1"
  /\ stack[4].kind = "blockers"
  /\ stack[4].hs = <<"f1", "f2">>
  /\ stack[4].called = <<"f1">>
  /\ stack[1].arg.retry = stack[3].arg.retry
  /\ nav.via = "retry"

====
